---- MODULE Spec2Model ----
(***************************************************************************)
(* The /query handler of the SQL gateway, in its three versions:           *)
(*   "main"     src/main.go              (probe, retry loop, JSON result)  *)
(*   "part_000" src/unnamed/part_000     (per-driver branches)             *)
(*   "part_001" src/unnamed/part_001     (plain database/sql, no context)  *)
(* One request is followed from the form fields to the handler's return.   *)
(* The backend, the network and the clock are the environment: their       *)
(* answers are chosen nondeterministically at each call.                   *)
(***************************************************************************)
EXTENDS Integers, Sequences, FiniteSets, TLC

\* ------------------------------------------------------------- bounds
MaxRows == 2
MaxAddrLen == 3
MaxPwLen == 2
NumReq == 2

\* -------------------------------------------------- program constants
maxRetries == 3
StatusOK == 200
StatusBadRequest == 400
StatusInternalServerError == 500
StatusServiceUnavailable == 503

VARIABLES
    prog,           \* which version of the handler runs
    driver,         \* form field "driver"
    server,         \* form field "server", a sequence of characters
    password,       \* form field "password", a sequence of characters
    netUp,          \* environment: the backend host accepts TCP connections
    dsnOk,          \* environment: the driver accepts the descriptor
    clientGone,     \* environment: the client has closed the connection
    pc,             \* the handler's position
    serverAddress,  \* local serverAddress
    defaultPort,    \* local defaultPort
    ctx,            \* "none" | "live" | "expired" | "done"
    i,              \* retry loop index
    err,            \* err != nil
    conn,           \* every connection or pool opened: [open, closes]
    db,             \* the handle db/pool/conn refers to (0: nil)
    cur,            \* the cursor rows: [st, opens, closes]
    curCols,        \* backend: the cursor's column list
    curRows,        \* backend: the cursor's rows
    pos,            \* rows consumed by rows.Next()
    cols,           \* local cols / columns
    rowsData,       \* local rowsData
    defers,         \* deferred calls, in the order they were registered
    resp,           \* every payload written to the response, in order
    delays,         \* seconds slept between attempts, in order
    hist,           \* the calls made so far, in order
    dsn             \* local dsn, a sequence of tokens

vars == <<prog, driver, server, password, netUp, dsnOk, clientGone, pc,
          serverAddress, defaultPort, dsn, ctx, i, err, conn, db, cur, curCols,
          curRows, pos, cols, rowsData, defers, resp, delays, hist>>

inputs == <<prog, driver, server, password, netUp, dsnOk>>

\* ------------------------------------------------------------- inputs
Programs == {"main", "part_000", "part_001"}
Drivers == {"postgres", "mysql", "clickhouse", "sqlite", "duckdb", "oracle"}
SupportedDrivers == {"postgres", "mysql", "clickhouse", "sqlite"}
Servers == {<<"h">>, <<"h", ":", "1">>}
AddrChars == {"h", ":", "1"}
ColumnLists == {<<"id">>, <<"id", "name">>, <<"id", "id">>}
Values == {[t |-> "bytes", v |-> "x"], [t |-> "int64", v |-> "7"]}

Range(s) == {s[k] : k \in DOMAIN s}
SeqsUpTo(S, n) == UNION {[1..k -> S] : k \in 0..n}
RowsOver(c) == SeqsUpTo([1..Len(c) -> Values], MaxRows)
Count(s, x) == Cardinality({k \in DOMAIN s : s[k] = x})

\* ------------------------------------------------- address resolution
Contains(a, ch) == \E k \in DOMAIN a : a[k] = ch

DefaultPort(d) ==
    CASE d = "postgres" -> <<"5", "4", "3", "2">>
      [] d = "mysql" -> <<"3", "3", "0", "6">>
      [] d = "clickhouse" -> <<"9", "0", "0", "0">>
      [] OTHER -> <<>>

\* the port appended without looking for one in the address
NormalizeAddressAlways(a, port) ==
    IF port # <<>> THEN a \o <<":">> \o port ELSE a

NormalizeAddress(a, port) ==
    IF ~Contains(a, ":") /\ port # <<>> THEN a \o <<":">> \o port ELSE a

\* net.DialTimeout("tcp", a, ...): a must be host:port and the host must answer
Dial(a) == netUp /\ Contains(a, ":")

\* ------------------------------------------------- connection descriptor
\* A descriptor is a sequence of tokens: the characters of the password and
\* of the address one by one, every delimiter on its own, the fixed words
\* (scheme, user u, database d, option names and values) as single tokens.
IndexOf(s, c) ==
    IF Contains(s, c)
    THEN CHOOSE k \in DOMAIN s : s[k] = c /\ \A j \in 1..(k - 1) : s[j] # c
    ELSE 0

LastIndexOf(s, c) ==
    IF Contains(s, c)
    THEN CHOOSE k \in DOMAIN s : s[k] = c /\ \A j \in (k + 1)..Len(s) : s[j] # c
    ELSE 0

From(s, k) == SubSeq(s, k, Len(s))

DecDigits == {"0", "1", "2", "3", "4", "5", "6", "7", "8", "9"}

\* url.QueryEscape: letters, digits and -_.~ are kept, a space becomes "+",
\* any other byte becomes %XX
EscapeChar(c) ==
    CASE c = " " -> <<"+">>
      [] c = "@" -> <<"%", "4", "0">>
      [] c = ":" -> <<"%", "3", "A">>
      [] c = "/" -> <<"%", "2", "F">>
      [] c = "?" -> <<"%", "3", "F">>
      [] c = "&" -> <<"%", "2", "6">>
      [] c = "=" -> <<"%", "3", "D">>
      [] c = "+" -> <<"%", "2", "B">>
      [] c = "%" -> <<"%", "2", "5">>
      [] OTHER -> <<c>>

RECURSIVE QueryEscape(_)
QueryEscape(s) ==
    IF s = <<>> THEN <<>> ELSE EscapeChar(Head(s)) \o QueryEscape(Tail(s))

\* the byte a %XX triplet stands for; "ERR" when it is not one
DecodeHex(a, b) ==
    CASE <<a, b>> = <<"4", "0">> -> "@"
      [] <<a, b>> = <<"3", "A">> -> ":"
      [] <<a, b>> = <<"2", "F">> -> "/"
      [] <<a, b>> = <<"3", "F">> -> "?"
      [] <<a, b>> = <<"2", "6">> -> "&"
      [] <<a, b>> = <<"3", "D">> -> "="
      [] <<a, b>> = <<"2", "B">> -> "+"
      [] <<a, b>> = <<"2", "5">> -> "%"
      [] <<a, b>> = <<"2", "0">> -> " "
      [] OTHER -> "ERR"

\* net/url unescape: %XX is decoded; "+" is a space in a query component
\* only (plus = TRUE), and stays "+" in the user-information component
RECURSIVE Unescape(_, _)
Unescape(s, plus) ==
    IF s = <<>> THEN <<>>
    ELSE IF Head(s) = "%"
         THEN IF Len(s) >= 3
              THEN <<DecodeHex(s[2], s[3])>> \o Unescape(From(s, 4), plus)
              ELSE <<"ERR">>
         ELSE <<(IF plus /\ Head(s) = "+" THEN " " ELSE Head(s))>>
                 \o Unescape(Tail(s), plus)

\* strings.Split
RECURSIVE SplitAt(_, _)
SplitAt(s, c) ==
    IF IndexOf(s, c) = 0 THEN <<s>>
    ELSE <<SubSeq(s, 1, IndexOf(s, c) - 1)>>
            \o SplitAt(From(s, IndexOf(s, c) + 1), c)

\* url.ParseQuery: empty segments are skipped, key and value are cut at the
\* first "=", both are unescaped
KeyOf(seg) ==
    IF IndexOf(seg, "=") = 0 THEN seg ELSE SubSeq(seg, 1, IndexOf(seg, "=") - 1)
ValueOf(seg) ==
    IF IndexOf(seg, "=") = 0 THEN <<>>
    ELSE Unescape(From(seg, IndexOf(seg, "=") + 1), TRUE)
QueryKeys(q) ==
    {KeyOf(seg) : seg \in {x \in Range(SplitAt(q, "&")) : x # <<>>}}
\* url.Values.Get: the first value of the key
QueryGet(q, key) ==
    LET segs == SplitAt(q, "&")
        hits == {k \in DOMAIN segs : segs[k] # <<>> /\ KeyOf(segs[k]) = <<key>>}
    IN IF hits = {} THEN <<>>
       ELSE ValueOf(segs[CHOOSE k \in hits : \A j \in hits : k <= j])

\* net/url validUserinfo: the bytes a user-information component may hold
UserinfoChars ==
    {"u", "a"} \cup DecDigits \cup {"A", "B", "D", "F"}
       \cup {"-", ".", "_", ":", "~", "!", "$", "&", "'", "(", ")", "*", "+",
             ",", ";", "=", "%", "@"}

\* net/url parseHost: what follows the last colon must be digits
ValidHostPort(h) ==
    \A k \in (LastIndexOf(h, ":") + 1)..Len(h) :
        LastIndexOf(h, ":") = 0 \/ h[k] \in DecDigits

\* net/url Parse of scheme://[user[:password]@]host[/path][?query]
ParseURL(d) ==
    LET r == Tail(d)
        q == IndexOf(r, "?")
        pre == IF q = 0 THEN r ELSE SubSeq(r, 1, q - 1)
        query == IF q = 0 THEN <<>> ELSE From(r, q + 1)
        sl == IndexOf(pre, "/")
        auth == IF sl = 0 THEN pre ELSE SubSeq(pre, 1, sl - 1)
        path == IF sl = 0 THEN <<>> ELSE From(pre, sl + 1)
        at == LastIndexOf(auth, "@")
        ui == SubSeq(auth, 1, at - 1)
        host == From(auth, at + 1)
        co == IndexOf(ui, ":")
        pw == IF co = 0 THEN <<>> ELSE Unescape(From(ui, co + 1), FALSE)
    IN [ok |-> /\ \A k \in DOMAIN ui : ui[k] \in UserinfoChars
               /\ ValidHostPort(host)
               /\ ~Contains(pw, "ERR"),
        password |-> pw, host |-> host, database |-> path, query |-> query]

\* lib/pq and pgx: the password of the user information, the path as database
ParsePostgres(d) ==
    LET u == ParseURL(d)
    IN [ok |-> u.ok, password |-> u.password, host |-> u.host,
        database |-> u.database, options |-> QueryKeys(u.query)]

\* clickhouse-go v1: the host of the URL, everything else from the query
ParseClickhouse(d) ==
    LET u == ParseURL(d)
    IN [ok |-> u.ok /\ ~Contains(QueryGet(u.query, "password"), "ERR"),
        password |-> QueryGet(u.query, "password"), host |-> u.host,
        database |-> QueryGet(u.query, "database"),
        options |-> QueryKeys(u.query) \ {<<"username">>, <<"password">>,
                                          <<"database">>}]

\* go-sql-driver/mysql ParseDSN: the last "/", the last "@" before it, the
\* first ":" before that, the address between "(" and ")", nothing unescaped
ParseMysql(d) ==
    LET sl == LastIndexOf(d, "/")
        left == SubSeq(d, 1, sl - 1)
        at == LastIndexOf(left, "@")
        ui == SubSeq(left, 1, at - 1)
        co == IndexOf(ui, ":")
        net == From(left, at + 1)
        op == IndexOf(net, "(")
        right == From(d, sl + 1)
        q == IndexOf(right, "?")
    IN [ok |-> sl > 0 /\ (op = 0 \/ net[Len(net)] = ")"),
        password |-> IF co = 0 THEN <<>> ELSE From(ui, co + 1),
        host |-> IF op = 0 THEN <<>> ELSE SubSeq(net, op + 1, Len(net) - 1),
        database |-> IF q = 0 THEN right ELSE SubSeq(right, 1, q - 1),
        options |-> IF q = 0 THEN {} ELSE QueryKeys(From(right, q + 1))]

\* net.SplitHostPort followed by the handler's fallback and host:port
HostPort(a, port) ==
    IF Count(a, ":") = 1 THEN a ELSE a \o <<":">> \o port

PgOptions == <<"sslmode", "=", "disable">>
MainPgOptions ==
    PgOptions \o <<"&", "connect_timeout", "=", "30", "&", "pool_timeout", "=",
                   "30", "&", "statement_timeout", "=", "60", "&",
                   "tcp_user_timeout", "=", "60000">>
MainMyOptions ==
    <<"timeout", "=", "30s", "&", "readTimeout", "=", "30s", "&",
      "writeTimeout", "=", "30s">>
MainChOptions == <<"read_timeout", "=", "30", "&", "write_timeout", "=", "30">>

\* the descriptor each version builds for the driver
BuildDSN(p, d, pw, addr, srv) ==
    CASE d = "postgres" ->
           <<"postgres://", "u", ":">>
              \o (IF p = "part_001" THEN pw ELSE QueryEscape(pw)) \o <<"@">>
              \o (IF p = "part_001" THEN srv ELSE addr) \o <<"/", "d", "?">>
              \o (IF p = "main" THEN MainPgOptions ELSE PgOptions)
      [] d = "mysql" ->
           <<"u", ":">> \o pw \o <<"@", "tcp", "(">>
              \o (IF p = "part_001" THEN srv
                  ELSE IF p = "main" THEN HostPort(addr, DefaultPort(d))
                  ELSE addr)
              \o <<")", "/", "d">>
              \o (IF p = "main" THEN <<"?">> \o MainMyOptions
                  ELSE IF p = "part_000" THEN <<"?", "parseTime", "=", "true">>
                  ELSE <<>>)
      [] d = "clickhouse" /\ p # "part_000" ->
           <<"tcp://">>
              \o (IF p = "main" THEN HostPort(addr, DefaultPort(d)) ELSE srv)
              \o <<"?", "username", "=", "u", "&", "password", "=">> \o pw
              \o <<"&", "database", "=", "d">>
              \o (IF p = "main" THEN <<"&">> \o MainChOptions ELSE <<>>)
      [] d \in {"sqlite", "duckdb"} /\ p = "part_001" -> <<"d">>
      [] OTHER -> <<>>

\* what the driver reads back from the descriptor
ParseDSN(d, s) ==
    CASE d = "postgres" -> ParsePostgres(s)
      [] d = "mysql" -> ParseMysql(s)
      [] d = "clickhouse" -> ParseClickhouse(s)

\* ------------------------------------------------ responses and return
Payload(status, keys, msg, cause, c, r) ==
    [status |-> status, keys |-> keys, msg |-> msg, cause |-> cause,
     cols |-> c, rows |-> r]

ErrorPayload(status, msg, cause) ==
    Payload(status, {"error"}, msg, cause, <<>>, <<>>)

Closed(h) == [open |-> FALSE, closes |-> h.closes + 1]

\* the handler without its defer db.Close() / pool.Close() / conn.Close()
ConnAfterDefersLeak == conn

\* return: the deferred calls run, last registered first
ConnAfterDefers ==
    [h \in DOMAIN conn |->
        IF h = db /\ Count(defers, "db") > 0
        THEN [open |-> FALSE, closes |-> conn[h].closes + Count(defers, "db")]
        ELSE conn[h]]

CurAfterDefers ==
    IF Count(defers, "rows") > 0
    THEN [cur EXCEPT !.st = "closed",
                     !.closes = cur.closes + Count(defers, "rows")]
    ELSE cur

Return ==
    /\ pc' = "done"
    /\ conn' = ConnAfterDefers
    /\ cur' = CurAfterDefers
    /\ ctx' = IF Count(defers, "cancel") > 0 THEN "done" ELSE ctx
    /\ defers' = <<>>

\* c.JSON / c.HTML with an error, then return
Fail(status, msg, cause) ==
    /\ resp' = Append(resp, ErrorPayload(status, msg, cause))
    /\ Return

\* the error text of a context-bound call
CtxCause == IF ctx = "expired" THEN "deadline" ELSE "backend"

\* ------------------------------------------------------ row conversion
\* main.go, part_000 mysql: []byte becomes string, anything else is kept
BytesToString(val) ==
    IF val.t = "bytes" THEN [t |-> "string", v |-> val.v] ELSE val

\* row[col] = v for i, col := range cols: a later equal name overwrites
Last(c, name) == CHOOSE k \in DOMAIN c :
    c[k] = name /\ \A j \in DOMAIN c : c[j] = name => j <= k

RowMap(c, values) == [name \in Range(c) |-> values[Last(c, name)]]

MakeRowMain(c, raw) == RowMap(c, [k \in DOMAIN raw |-> BytesToString(raw[k])])

\* ---------------------------------------------------------------- Init
Init ==
    /\ prog \in Programs
    /\ driver \in Drivers
    /\ server \in Servers
    /\ password = <<"a">>
    /\ netUp \in BOOLEAN
    /\ dsnOk \in BOOLEAN
    /\ clientGone = FALSE
    /\ dsn = <<>>
    /\ pc = "start"
    /\ serverAddress = <<>>
    /\ defaultPort = <<>>
    /\ ctx = "none"
    /\ i = 0
    /\ err = FALSE
    /\ conn = <<>>
    /\ db = 0
    /\ cur = [st |-> "nil", opens |-> 0, closes |-> 0]
    /\ curCols = <<>>
    /\ curRows = <<>>
    /\ pos = 0
    /\ cols = <<>>
    /\ rowsData = <<>>
    /\ defers = <<>>
    /\ resp = <<>>
    /\ delays = <<>>
    /\ hist = <<>>

\* the deadline of context.WithTimeout passes
Expire ==
    /\ ctx = "live"
    /\ pc # "done"
    /\ ctx' = "expired"
    /\ hist' = Append(hist, "expire")
    /\ UNCHANGED <<inputs, clientGone, dsn, pc, serverAddress, defaultPort, i, err, conn, db,
                   cur, curCols, curRows, pos, cols, rowsData, defers, resp,
                   delays>>

\* the client closes its connection while the handler runs: gin cancels
\* c.Request.Context(), which no version of the handler reads; the handler's
\* ctx is derived from context.Background()
ClientDisconnect ==
    /\ ~clientGone
    /\ pc # "done"
    /\ clientGone' = TRUE
    /\ UNCHANGED <<inputs, dsn, pc, serverAddress, defaultPort, ctx, i, err,
                   conn, db, cur, curCols, curRows, pos, cols, rowsData,
                   defers, resp, delays, hist>>

\* =========================================================== src/main.go
\* lines 49-109: address, DSN switch, context
M_Resolve ==
    /\ prog = "main" /\ pc = "start"
    /\ defaultPort' = DefaultPort(driver)
    /\ serverAddress' = NormalizeAddress(server, DefaultPort(driver))
    /\ IF driver \in {"postgres", "mysql", "clickhouse"}
       THEN /\ pc' = "probe"
            /\ ctx' = "live"
            /\ defers' = Append(defers, "cancel")
            /\ UNCHANGED <<conn, cur, resp>>
       ELSE Fail(StatusBadRequest, "Unsupported database driver", "")
    /\ dsn' = BuildDSN(prog, driver, password,
                       NormalizeAddress(server, DefaultPort(driver)), server)
    /\ UNCHANGED <<inputs, clientGone, i, err, db, curCols, curRows, pos, cols,
                   rowsData, delays, hist>>

\* lines 111-130: checkServer dials the form field server
M_CheckServer ==
    /\ prog = "main" /\ pc = "probe"
    /\ hist' = Append(hist, "probe")
    /\ IF Dial(server)
       THEN /\ pc' = "attempt"
            \* the probe's connection, closed by checkServer's own defer
            /\ conn' = Append(conn, [open |-> FALSE, closes |-> 1])
            /\ UNCHANGED <<ctx, cur, defers, resp>>
       ELSE Fail(StatusServiceUnavailable, "Database server is not accessible", "dial")
    /\ UNCHANGED <<inputs, clientGone, dsn, serverAddress, defaultPort, i, err, db, curCols,
                   curRows, pos, cols, rowsData, delays>>

\* lines 138-151: loop head, sql.Open, pool settings
M_Attempt ==
    /\ prog = "main" /\ pc = "attempt" /\ i < maxRetries
    /\ hist' = hist \o <<"attempt", "open">>
    /\ IF dsnOk
       THEN /\ conn' = Append(conn, [open |-> TRUE, closes |-> 0])
            /\ db' = Len(conn) + 1
            /\ err' = FALSE
            /\ pc' = "ping"
            /\ i' = i
       ELSE /\ err' = TRUE
            /\ db' = 0
            /\ conn' = conn
            /\ i' = i + 1
            /\ pc' = IF i + 1 < maxRetries THEN "attempt" ELSE "afterloop"
    /\ UNCHANGED <<inputs, clientGone, dsn, serverAddress, defaultPort, ctx, cur, curCols,
                   curRows, pos, cols, rowsData, defers, resp, delays>>

\* lines 153-157: db.PingContext(ctx) succeeds
M_PingOk ==
    /\ prog = "main" /\ pc = "ping" /\ ctx = "live"
    /\ hist' = Append(hist, "ping")
    /\ err' = FALSE
    /\ pc' = "afterloop"
    /\ UNCHANGED <<inputs, clientGone, dsn, serverAddress, defaultPort, ctx, i, conn, db, cur,
                   curCols, curRows, pos, cols, rowsData, defers, resp, delays>>

\* lines 153-165: db.PingContext(ctx) fails, db.Close()
M_PingFail ==
    /\ prog = "main" /\ pc = "ping"
    /\ hist' = hist \o <<"ping", "pingerr", "close">>
    /\ err' = TRUE
    /\ conn' = [conn EXCEPT ![db] = Closed(conn[db])]
    /\ IF i < maxRetries - 1
       THEN pc' = "sleep" /\ i' = i
       ELSE pc' = "afterloop" /\ i' = i + 1
    /\ UNCHANGED <<inputs, clientGone, dsn, serverAddress, defaultPort, ctx, db, cur, curCols,
                   curRows, pos, cols, rowsData, defers, resp, delays>>

\* lines 162-164: time.Sleep(time.Second * time.Duration(i+1))
M_Sleep ==
    /\ prog = "main" /\ pc = "sleep"
    /\ delays' = Append(delays, i + 1)
    /\ hist' = Append(hist, "sleep")
    /\ i' = i + 1
    /\ pc' = "attempt"
    /\ UNCHANGED <<inputs, clientGone, dsn, serverAddress, defaultPort, ctx, err, conn, db, cur,
                   curCols, curRows, pos, cols, rowsData, defers, resp>>

\* lines 167-174: all attempts failed, or defer db.Close()
M_AfterLoop ==
    /\ prog = "main" /\ pc = "afterloop"
    /\ IF err
       THEN Fail(StatusServiceUnavailable, "Failed to connect to database after 3 attempts", CtxCause)
       ELSE /\ defers' = Append(defers, "db")
            /\ pc' = "query"
            /\ UNCHANGED <<ctx, conn, cur, resp>>
    /\ UNCHANGED <<inputs, clientGone, dsn, serverAddress, defaultPort, i, err, db, curCols,
                   curRows, pos, cols, rowsData, delays, hist>>

\* lines 176-185: db.QueryContext(ctx, query) returns a cursor
M_QueryOk ==
    /\ prog = "main" /\ pc = "query" /\ ctx = "live"
    /\ hist' = Append(hist, "exec")
    /\ \E c \in ColumnLists : \E r \in RowsOver(c) :
          curCols' = c /\ curRows' = r
    /\ cur' = [st |-> "open", opens |-> cur.opens + 1, closes |-> 0]
    /\ defers' = Append(defers, "rows")
    /\ pc' = "columns"
    /\ UNCHANGED <<inputs, clientGone, dsn, serverAddress, defaultPort, ctx, i, err, conn, db,
                   pos, cols, rowsData, resp, delays>>

\* variant of M_QueryFail in which a failed execute re-enters the retry loop
M_QueryFailReconnect ==
    /\ prog = "main" /\ pc = "query"
    /\ hist' = Append(hist, "exec")
    /\ pc' = "attempt"
    /\ i' = 0
    /\ UNCHANGED <<inputs, clientGone, dsn, serverAddress, defaultPort, ctx, err, conn, db, cur,
                   curCols, curRows, pos, cols, rowsData, defers, resp, delays>>

\* lines 177-184: db.QueryContext(ctx, query) returns an error
M_QueryFail ==
    /\ prog = "main" /\ pc = "query"
    /\ hist' = Append(hist, "exec")
    /\ Fail(StatusBadRequest, "Query error", CtxCause)
    /\ UNCHANGED <<inputs, clientGone, dsn, serverAddress, defaultPort, i, err, db, curCols,
                   curRows, pos, cols, rowsData, delays>>

\* lines 187-194: rows.Columns()
M_Columns ==
    /\ prog = "main" /\ pc = "columns"
    /\ \/ /\ cols' = curCols
          /\ pc' = "next"
          /\ UNCHANGED <<ctx, conn, cur, defers, resp>>
       \/ /\ ctx = "expired"
          /\ cols' = cols
          /\ Fail(StatusInternalServerError, "Failed to get columns", "closed")
    /\ UNCHANGED <<inputs, clientGone, dsn, serverAddress, defaultPort, i, err, db, curCols,
                   curRows, pos, rowsData, delays, hist>>

\* the row put in front of rowsData instead of appended
M_ScanRowPrepend ==
    /\ prog = "main" /\ pc = "next" /\ pos < Len(curRows)
    /\ hist' = Append(hist, "scan")
    /\ rowsData' = <<MakeRowMain(cols, curRows[pos + 1])>> \o rowsData
    /\ pos' = pos + 1
    /\ UNCHANGED <<inputs, clientGone, dsn, pc, serverAddress, defaultPort, ctx, i, err, conn,
                   db, cur, curCols, curRows, cols, defers, resp, delays>>

\* lines 198-227: rows.Next(), rows.Scan, the row map, append
M_ScanRow ==
    /\ prog = "main" /\ pc = "next" /\ pos < Len(curRows)
    /\ hist' = Append(hist, "scan")
    /\ rowsData' = Append(rowsData, MakeRowMain(cols, curRows[pos + 1]))
    /\ pos' = pos + 1
    /\ UNCHANGED <<inputs, clientGone, dsn, pc, serverAddress, defaultPort, ctx, i, err, conn,
                   db, cur, curCols, curRows, cols, defers, resp, delays>>

\* variant of M_ScanFail in which the loop goes on after reporting the error
M_ScanFailContinue ==
    /\ prog = "main" /\ pc = "next" /\ pos < Len(curRows)
    /\ pos' = pos + 1
    /\ \E k \in DOMAIN cols :
          /\ hist' = hist \o <<"scan", "scanerr", cols[k]>>
          /\ resp' = Append(resp, ErrorPayload(StatusInternalServerError,
                                               "Failed to scan row", cols[k]))
    /\ UNCHANGED <<inputs, clientGone, dsn, serverAddress, defaultPort, i, err, db, curCols,
                   curRows, cols, rowsData, delays, pc, ctx, conn, cur, defers>>

\* lines 206-211: rows.Scan fails; its error names the column
M_ScanFail ==
    /\ prog = "main" /\ pc = "next" /\ pos < Len(curRows)
    /\ pos' = pos + 1
    /\ \E k \in DOMAIN cols :
          /\ hist' = hist \o <<"scan", "scanerr", cols[k]>>
          /\ Fail(StatusInternalServerError, "Failed to scan row", cols[k])
    /\ UNCHANGED <<inputs, clientGone, dsn, serverAddress, defaultPort, i, err, db, curCols,
                   curRows, cols, rowsData, delays>>

\* lines 229-234: rows.Next() is false and rows.Err() is not nil
M_RowsErr ==
    /\ prog = "main" /\ pc = "next"
    /\ Fail(StatusInternalServerError, "Error during row iteration", CtxCause)
    /\ UNCHANGED <<inputs, clientGone, dsn, serverAddress, defaultPort, i, err, db, curCols,
                   curRows, pos, cols, rowsData, delays, hist>>

\* lines 236-241: the cursor is drained, the JSON result
M_Success ==
    /\ prog = "main" /\ pc = "next" /\ pos = Len(curRows)
    /\ resp' = Append(resp, Payload(StatusOK, {"columns", "rows", "status"},
                                    "success", "", cols, rowsData))
    /\ Return
    /\ UNCHANGED <<inputs, clientGone, dsn, serverAddress, defaultPort, i, err, db, curCols,
                   curRows, pos, cols, rowsData, delays, hist>>

MainGo ==
    \/ M_Resolve \/ M_CheckServer \/ M_Attempt \/ M_PingOk \/ M_PingFail
    \/ M_Sleep \/ M_AfterLoop \/ M_QueryOk \/ M_QueryFail \/ M_Columns
    \/ M_ScanRow \/ M_ScanFail \/ M_RowsErr \/ M_Success

\* ================================================= src/unnamed/part_000
\* clickhouse-go/v2 values: every value of a column has the column's type
ChTypes == {"String", "UInt8"}
ChRow(types) ==
    {row \in [DOMAIN types -> [t : ChTypes, v : {"x", "7"}]] :
        \A k \in DOMAIN types : row[k].t = types[k]}
ChRowsOver(c) ==
    UNION {SeqsUpTo(ChRow(types), MaxRows) : types \in [1..Len(c) -> ChTypes]}

\* lines 312-335 and 348-369: the scan destination chosen by column type
ChScan(val) ==
    CASE val.t = "String" -> [t |-> "string", v |-> val.v]
      [] val.t \in {"UInt8", "UInt16", "UInt32"} -> [t |-> "uint32", v |-> val.v]
      [] val.t = "UInt64" -> [t |-> "uint64", v |-> val.v]
      [] val.t \in {"Int8", "Int16", "Int32"} -> [t |-> "int32", v |-> val.v]
      [] val.t = "Int64" -> [t |-> "int64", v |-> val.v]
      [] val.t = "Float32" -> [t |-> "float32", v |-> val.v]
      [] val.t = "Float64" -> [t |-> "float64", v |-> val.v]
      [] val.t \in {"DateTime", "Date"} -> [t |-> "time.Time", v |-> val.v]
      [] OTHER -> val

MakeRowCh(c, raw) == RowMap(c, [k \in DOMAIN raw |-> ChScan(raw[k])])

\* lines 49-71: address, context
P0_Resolve ==
    /\ prog = "part_000" /\ pc = "start"
    /\ defaultPort' = DefaultPort(driver)
    /\ serverAddress' = NormalizeAddress(server, DefaultPort(driver))
    /\ ctx' = "live"
    /\ defers' = Append(defers, "cancel")
    /\ pc' = "switch"
    /\ UNCHANGED <<inputs, clientGone, dsn, i, err, conn, db, cur, curCols, curRows, pos, cols,
                   rowsData, resp, delays, hist>>

\* lines 76-96, 189, 274, 391-396: switch driver, pgxpool.ParseConfig
P0_Switch ==
    /\ prog = "part_000" /\ pc = "switch"
    /\ CASE driver = "postgres" /\ dsnOk ->
              pc' = "pg_attempt" /\ UNCHANGED <<ctx, conn, cur, defers, resp>>
         [] driver = "postgres" /\ ~dsnOk ->
              Fail(StatusBadRequest, "Invalid connection configuration", "parse")
         [] driver = "mysql" ->
              pc' = "my_open" /\ UNCHANGED <<ctx, conn, cur, defers, resp>>
         [] driver = "clickhouse" ->
              pc' = "ch_open" /\ UNCHANGED <<ctx, conn, cur, defers, resp>>
         [] OTHER ->
              Fail(StatusBadRequest, "Unsupported database driver", "")
    /\ dsn' = BuildDSN(prog, driver, password, serverAddress, server)
    /\ UNCHANGED <<inputs, clientGone, serverAddress, defaultPort, i, err, db,
                   curCols, curRows, pos, cols, rowsData, delays, hist>>

\* lines 100-104: loop head, pgxpool.NewWithConfig returns a pool
P0_PgAttempt ==
    /\ prog = "part_000" /\ pc = "pg_attempt" /\ i < maxRetries
    /\ hist' = hist \o <<"attempt", "open">>
    /\ conn' = Append(conn, [open |-> TRUE, closes |-> 0])
    /\ db' = Len(conn) + 1
    /\ err' = FALSE
    /\ pc' = "pg_ping"
    /\ UNCHANGED <<inputs, clientGone, dsn, serverAddress, defaultPort, ctx, i, cur, curCols,
                   curRows, pos, cols, rowsData, defers, resp, delays>>

\* lines 100-120: pgxpool.NewWithConfig fails, pool is nil
P0_PgAttemptFail ==
    /\ prog = "part_000" /\ pc = "pg_attempt" /\ i < maxRetries
    /\ hist' = hist \o <<"attempt", "open">>
    /\ db' = 0
    /\ err' = TRUE
    /\ IF i < maxRetries - 1
       THEN pc' = "pg_sleep" /\ i' = i
       ELSE pc' = "pg_afterloop" /\ i' = i + 1
    /\ UNCHANGED <<inputs, clientGone, dsn, serverAddress, defaultPort, ctx, conn, cur, curCols,
                   curRows, pos, cols, rowsData, defers, resp, delays>>

\* lines 106-109: pool.Ping(ctx) succeeds
P0_PgPingOk ==
    /\ prog = "part_000" /\ pc = "pg_ping" /\ ctx = "live"
    /\ hist' = Append(hist, "ping")
    /\ err' = FALSE
    /\ pc' = "pg_afterloop"
    /\ UNCHANGED <<inputs, clientGone, dsn, serverAddress, defaultPort, ctx, i, conn, db, cur,
                   curCols, curRows, pos, cols, rowsData, defers, resp, delays>>

\* lines 106-120: pool.Ping(ctx) fails, pool.Close()
P0_PgPingFail ==
    /\ prog = "part_000" /\ pc = "pg_ping"
    /\ hist' = hist \o <<"ping", "pingerr", "close">>
    /\ err' = TRUE
    /\ conn' = [conn EXCEPT ![db] = Closed(conn[db])]
    /\ IF i < maxRetries - 1
       THEN pc' = "pg_sleep" /\ i' = i
       ELSE pc' = "pg_afterloop" /\ i' = i + 1
    /\ UNCHANGED <<inputs, clientGone, dsn, serverAddress, defaultPort, ctx, db, cur, curCols,
                   curRows, pos, cols, rowsData, defers, resp, delays>>

\* lines 117-119: time.Sleep(time.Second * time.Duration(i+1))
P0_PgSleep ==
    /\ prog = "part_000" /\ pc = "pg_sleep"
    /\ delays' = Append(delays, i + 1)
    /\ hist' = Append(hist, "sleep")
    /\ i' = i + 1
    /\ pc' = "pg_attempt"
    /\ UNCHANGED <<inputs, clientGone, dsn, serverAddress, defaultPort, ctx, err, conn, db, cur,
                   curCols, curRows, pos, cols, rowsData, defers, resp>>

\* lines 122-129: all attempts failed, or defer pool.Close()
P0_PgAfterLoop ==
    /\ prog = "part_000" /\ pc = "pg_afterloop"
    /\ IF err
       THEN Fail(StatusServiceUnavailable, "Failed to connect to database after 3 attempts", CtxCause)
       ELSE /\ defers' = Append(defers, "db")
            /\ pc' = "pg_query"
            /\ UNCHANGED <<ctx, conn, cur, resp>>
    /\ UNCHANGED <<inputs, clientGone, dsn, serverAddress, defaultPort, i, err, db, curCols,
                   curRows, pos, cols, rowsData, delays, hist>>

\* lines 131-148: pool.Query(ctx, query) returns rows, FieldDescriptions
P0_PgQueryOk ==
    /\ prog = "part_000" /\ pc = "pg_query" /\ ctx = "live"
    /\ hist' = Append(hist, "exec")
    /\ \E c \in ColumnLists : \E r \in RowsOver(c) :
          curCols' = c /\ curRows' = r /\ cols' = c
    /\ cur' = [st |-> "open", opens |-> cur.opens + 1, closes |-> 0]
    /\ defers' = Append(defers, "rows")
    /\ pc' = "pg_next"
    /\ UNCHANGED <<inputs, clientGone, dsn, serverAddress, defaultPort, ctx, i, err, conn, db,
                   pos, rowsData, resp, delays>>

\* lines 132-140: pool.Query(ctx, query) returns an error
P0_PgQueryFail ==
    /\ prog = "part_000" /\ pc = "pg_query"
    /\ hist' = Append(hist, "exec")
    /\ Fail(StatusBadRequest, "Query error", CtxCause)
    /\ UNCHANGED <<inputs, clientGone, dsn, serverAddress, defaultPort, i, err, db, curCols,
                   curRows, pos, cols, rowsData, delays>>

\* lines 152-166: rows.Next(), rows.Values(), the row map, append
P0_PgRow ==
    /\ prog = "part_000" /\ pc = "pg_next" /\ pos < Len(curRows)
    /\ hist' = Append(hist, "scan")
    /\ rowsData' = Append(rowsData, RowMap(cols, curRows[pos + 1]))
    /\ pos' = pos + 1
    /\ UNCHANGED <<inputs, clientGone, dsn, pc, serverAddress, defaultPort, ctx, i, err, conn,
                   db, cur, curCols, curRows, cols, defers, resp, delays>>

\* lines 153-159: rows.Values() fails
P0_PgValuesFail ==
    /\ prog = "part_000" /\ pc = "pg_next" /\ pos < Len(curRows)
    /\ \E k \in DOMAIN cols : hist' = hist \o <<"scan", "scanerr", cols[k]>>
    /\ pos' = pos + 1
    /\ Fail(StatusInternalServerError, "Failed to get row values", "decode")
    /\ UNCHANGED <<inputs, clientGone, dsn, serverAddress, defaultPort, i, err, db, curCols,
                   curRows, cols, rowsData, delays>>

\* lines 168-173: rows.Err() is not nil
P0_PgRowsErr ==
    /\ prog = "part_000" /\ pc = "pg_next"
    /\ Fail(StatusInternalServerError, "Error during row iteration", CtxCause)
    /\ UNCHANGED <<inputs, clientGone, dsn, serverAddress, defaultPort, i, err, db, curCols,
                   curRows, pos, cols, rowsData, delays, hist>>

\* lines 180-188: the HTML result
P0_PgSuccess ==
    /\ prog = "part_000" /\ pc = "pg_next" /\ pos = Len(curRows)
    /\ resp' = Append(resp, Payload(StatusOK, {"Columns", "Rows", "status"},
                                    "success", "", cols, rowsData))
    /\ Return
    /\ UNCHANGED <<inputs, clientGone, dsn, serverAddress, defaultPort, i, err, db, curCols,
                   curRows, pos, cols, rowsData, delays, hist>>

\* lines 189-198: sql.Open("mysql", dsn), defer db.Close()
P0_MyOpen ==
    /\ prog = "part_000" /\ pc = "my_open"
    /\ hist' = hist \o <<"attempt", "open">>
    /\ IF dsnOk
       THEN /\ conn' = Append(conn, [open |-> TRUE, closes |-> 0])
            /\ db' = Len(conn) + 1
            /\ err' = FALSE
            /\ defers' = Append(defers, "db")
            /\ pc' = "my_ping"
            /\ UNCHANGED <<ctx, cur, resp>>
       ELSE /\ db' = 0
            /\ err' = TRUE
            /\ Fail(StatusInternalServerError, "Database connection error", "")
    /\ UNCHANGED <<inputs, clientGone, dsn, serverAddress, defaultPort, i, curCols, curRows,
                   pos, cols, rowsData, delays>>

\* lines 200-201: db.Ping() succeeds; it does not take the context
P0_MyPingOk ==
    /\ prog = "part_000" /\ pc = "my_ping"
    /\ hist' = Append(hist, "ping")
    /\ err' = FALSE
    /\ pc' = "my_query"
    /\ UNCHANGED <<inputs, clientGone, dsn, serverAddress, defaultPort, ctx, i, conn, db, cur,
                   curCols, curRows, pos, cols, rowsData, defers, resp, delays>>

\* lines 201-206: db.Ping() fails
P0_MyPingFail ==
    /\ prog = "part_000" /\ pc = "my_ping"
    /\ hist' = hist \o <<"ping", "pingerr">>
    /\ err' = TRUE
    /\ Fail(StatusInternalServerError, "Failed to connect to database", "")
    /\ UNCHANGED <<inputs, clientGone, dsn, serverAddress, defaultPort, i, db, curCols, curRows,
                   pos, cols, rowsData, delays>>

\* lines 208-217: db.QueryContext(ctx, query) returns a cursor
P0_MyQueryOk ==
    /\ prog = "part_000" /\ pc = "my_query" /\ ctx = "live"
    /\ hist' = Append(hist, "exec")
    /\ \E c \in ColumnLists : \E r \in RowsOver(c) :
          curCols' = c /\ curRows' = r
    /\ cur' = [st |-> "open", opens |-> cur.opens + 1, closes |-> 0]
    /\ defers' = Append(defers, "rows")
    /\ pc' = "my_columns"
    /\ UNCHANGED <<inputs, clientGone, dsn, serverAddress, defaultPort, ctx, i, err, conn, db,
                   pos, cols, rowsData, resp, delays>>

\* lines 209-216: db.QueryContext(ctx, query) returns an error
P0_MyQueryFail ==
    /\ prog = "part_000" /\ pc = "my_query"
    /\ hist' = Append(hist, "exec")
    /\ Fail(StatusBadRequest, "Query error", CtxCause)
    /\ UNCHANGED <<inputs, clientGone, dsn, serverAddress, defaultPort, i, err, db, curCols,
                   curRows, pos, cols, rowsData, delays>>

\* lines 219-227: rows.Columns()
P0_MyColumns ==
    /\ prog = "part_000" /\ pc = "my_columns"
    /\ \/ /\ cols' = curCols
          /\ pc' = "my_next"
          /\ UNCHANGED <<ctx, conn, cur, defers, resp>>
       \/ /\ ctx = "expired"
          /\ cols' = cols
          /\ Fail(StatusInternalServerError, "Failed to retrieve column names", "")
    /\ UNCHANGED <<inputs, clientGone, dsn, serverAddress, defaultPort, i, err, db, curCols,
                   curRows, pos, rowsData, delays, hist>>

\* lines 231-255: rows.Next(), rows.Scan, the row map, append
P0_MyScanRow ==
    /\ prog = "part_000" /\ pc = "my_next" /\ pos < Len(curRows)
    /\ hist' = Append(hist, "scan")
    /\ rowsData' = Append(rowsData, MakeRowMain(cols, curRows[pos + 1]))
    /\ pos' = pos + 1
    /\ UNCHANGED <<inputs, clientGone, dsn, pc, serverAddress, defaultPort, ctx, i, err, conn,
                   db, cur, curCols, curRows, cols, defers, resp, delays>>

\* lines 238-244: rows.Scan fails; the message is fixed
P0_MyScanFail ==
    /\ prog = "part_000" /\ pc = "my_next" /\ pos < Len(curRows)
    /\ \E k \in DOMAIN cols : hist' = hist \o <<"scan", "scanerr", cols[k]>>
    /\ pos' = pos + 1
    /\ Fail(StatusInternalServerError, "Failed to scan row", "")
    /\ UNCHANGED <<inputs, clientGone, dsn, serverAddress, defaultPort, i, err, db, curCols,
                   curRows, cols, rowsData, delays>>

\* lines 257-263: rows.Err() is not nil
P0_MyRowsErr ==
    /\ prog = "part_000" /\ pc = "my_next"
    /\ Fail(StatusInternalServerError, "Error processing rows", "")
    /\ UNCHANGED <<inputs, clientGone, dsn, serverAddress, defaultPort, i, err, db, curCols,
                   curRows, pos, cols, rowsData, delays, hist>>

\* lines 265-273: the HTML result
P0_MySuccess ==
    /\ prog = "part_000" /\ pc = "my_next" /\ pos = Len(curRows)
    /\ resp' = Append(resp, Payload(StatusOK, {"Columns", "Rows", "status"},
                                    "success", "", cols, rowsData))
    /\ Return
    /\ UNCHANGED <<inputs, clientGone, dsn, serverAddress, defaultPort, i, err, db, curCols,
                   curRows, pos, cols, rowsData, delays, hist>>

\* lines 275-290: clickhouse.Open, defer conn.Close()
P0_ChOpen ==
    /\ prog = "part_000" /\ pc = "ch_open"
    /\ hist' = hist \o <<"attempt", "open">>
    /\ IF dsnOk
       THEN /\ conn' = Append(conn, [open |-> TRUE, closes |-> 0])
            /\ db' = Len(conn) + 1
            /\ err' = FALSE
            /\ defers' = Append(defers, "db")
            /\ pc' = "ch_query"
            /\ UNCHANGED <<ctx, cur, resp>>
       ELSE /\ db' = 0
            /\ err' = TRUE
            /\ Fail(StatusBadRequest, "failed to connect to ClickHouse", "options")
    /\ UNCHANGED <<inputs, clientGone, dsn, serverAddress, defaultPort, i, curCols, curRows,
                   pos, cols, rowsData, delays>>

\* lines 292-305: conn.Query(ctx, query) returns rows, Columns, ColumnTypes
P0_ChQueryOk ==
    /\ prog = "part_000" /\ pc = "ch_query" /\ ctx = "live"
    /\ hist' = Append(hist, "exec")
    /\ \E c \in ColumnLists : \E r \in ChRowsOver(c) :
          curCols' = c /\ curRows' = r /\ cols' = c
    /\ cur' = [st |-> "open", opens |-> cur.opens + 1, closes |-> 0]
    /\ defers' = Append(defers, "rows")
    /\ pc' = "ch_next"
    /\ UNCHANGED <<inputs, clientGone, dsn, serverAddress, defaultPort, ctx, i, err, conn, db,
                   pos, rowsData, resp, delays>>

\* lines 292-300: conn.Query returns an error whose text is not "EOF"
P0_ChQueryFail ==
    /\ prog = "part_000" /\ pc = "ch_query"
    /\ hist' = Append(hist, "exec")
    /\ Fail(StatusBadRequest, "Query error", CtxCause)
    /\ UNCHANGED <<inputs, clientGone, dsn, serverAddress, defaultPort, i, err, db, curCols,
                   curRows, pos, cols, rowsData, delays>>

\* lines 292-301: conn.Query returns (nil, EOF); the check lets it pass and
\* defer rows.Close() on the nil rows panics; gin's Recovery answers 500
P0_ChQueryEOF ==
    /\ prog = "part_000" /\ pc = "ch_query" /\ ctx = "live"
    /\ hist' = hist \o <<"exec", "eof", "panic">>
    /\ resp' = Append(resp, Payload(StatusInternalServerError, {}, "", "panic",
                                    <<>>, <<>>))
    /\ Return
    /\ UNCHANGED <<inputs, clientGone, dsn, serverAddress, defaultPort, i, err, db, curCols,
                   curRows, pos, cols, rowsData, delays>>

\* lines 309-372: rows.Next(), typed rows.Scan, the row map, append
P0_ChScanRow ==
    /\ prog = "part_000" /\ pc = "ch_next" /\ pos < Len(curRows)
    /\ hist' = Append(hist, "scan")
    /\ rowsData' = Append(rowsData, MakeRowCh(cols, curRows[pos + 1]))
    /\ pos' = pos + 1
    /\ UNCHANGED <<inputs, clientGone, dsn, pc, serverAddress, defaultPort, ctx, i, err, conn,
                   db, cur, curCols, curRows, cols, defers, resp, delays>>

\* lines 337-343: rows.Scan fails; its error may name the column
P0_ChScanFail ==
    /\ prog = "part_000" /\ pc = "ch_next" /\ pos < Len(curRows)
    /\ pos' = pos + 1
    /\ \E k \in DOMAIN cols : \E named \in BOOLEAN :
          /\ hist' = hist \o <<"scan", "scanerr", cols[k]>>
          /\ Fail(StatusInternalServerError, "Failed to scan row",
                  IF named THEN cols[k] ELSE "")
    /\ UNCHANGED <<inputs, clientGone, dsn, serverAddress, defaultPort, i, err, db, curCols,
                   curRows, cols, rowsData, delays>>

\* lines 374-380: rows.Err() is not nil
P0_ChRowsErr ==
    /\ prog = "part_000" /\ pc = "ch_next"
    /\ Fail(StatusInternalServerError, "Error processing rows", "")
    /\ UNCHANGED <<inputs, clientGone, dsn, serverAddress, defaultPort, i, err, db, curCols,
                   curRows, pos, cols, rowsData, delays, hist>>

\* lines 382-390: the HTML result
P0_ChSuccess ==
    /\ prog = "part_000" /\ pc = "ch_next" /\ pos = Len(curRows)
    /\ resp' = Append(resp, Payload(StatusOK, {"Columns", "Rows", "status"},
                                    "success", "", cols, rowsData))
    /\ Return
    /\ UNCHANGED <<inputs, clientGone, dsn, serverAddress, defaultPort, i, err, db, curCols,
                   curRows, pos, cols, rowsData, delays, hist>>

Part000 ==
    \/ P0_Resolve \/ P0_Switch
    \/ P0_PgAttempt \/ P0_PgAttemptFail \/ P0_PgPingOk \/ P0_PgPingFail
    \/ P0_PgSleep \/ P0_PgAfterLoop \/ P0_PgQueryOk \/ P0_PgQueryFail
    \/ P0_PgRow \/ P0_PgValuesFail \/ P0_PgRowsErr \/ P0_PgSuccess
    \/ P0_MyOpen \/ P0_MyPingOk \/ P0_MyPingFail \/ P0_MyQueryOk
    \/ P0_MyQueryFail \/ P0_MyColumns \/ P0_MyScanRow \/ P0_MyScanFail
    \/ P0_MyRowsErr \/ P0_MySuccess
    \/ P0_ChOpen \/ P0_ChQueryOk \/ P0_ChQueryFail \/ P0_ChQueryEOF
    \/ P0_ChScanRow \/ P0_ChScanFail \/ P0_ChRowsErr \/ P0_ChSuccess

\* ================================================= src/unnamed/part_001
\* sql.Open knows the drivers the file imports; "duckdb" is not one of them
P1_Registered == {"postgres", "mysql", "sqlite", "clickhouse"}

\* lines 44-63: the DSN switch
P1_Switch ==
    /\ prog = "part_001" /\ pc = "start"
    /\ IF driver \in {"postgres", "mysql", "sqlite", "clickhouse", "duckdb"}
       THEN pc' = "open" /\ UNCHANGED <<ctx, conn, cur, defers, resp>>
       ELSE Fail(StatusInternalServerError, "Unsupported database driver", "")
    /\ dsn' = BuildDSN(prog, driver, password, serverAddress, server)
    /\ UNCHANGED <<inputs, clientGone, serverAddress, defaultPort, i, err, db,
                   curCols, curRows, pos, cols, rowsData, delays, hist>>

\* lines 65-79: sql.Open, the "Connection success" dialog, defer db.Close()
P1_Open ==
    /\ prog = "part_001" /\ pc = "open"
    /\ hist' = hist \o <<"attempt", "open">>
    /\ IF dsnOk /\ driver \in P1_Registered
       THEN /\ conn' = Append(conn, [open |-> TRUE, closes |-> 0])
            /\ db' = Len(conn) + 1
            /\ err' = FALSE
            /\ resp' = Append(resp, Payload(StatusOK, {"Content"},
                                "Connection success", "", <<>>, <<>>))
            /\ defers' = Append(defers, "db")
            /\ pc' = "query"
            /\ UNCHANGED <<ctx, cur>>
       ELSE /\ db' = 0
            /\ err' = TRUE
            /\ Fail(StatusInternalServerError, "Connection error", "open")
    /\ UNCHANGED <<inputs, clientGone, dsn, serverAddress, defaultPort, i, curCols, curRows,
                   pos, cols, rowsData, delays>>

\* lines 81-103: db.Query returns a cursor, the "Test" page, rows.Columns()
P1_QueryOk ==
    /\ prog = "part_001" /\ pc = "query"
    /\ hist' = Append(hist, "exec")
    /\ \E c \in ColumnLists : \E r \in RowsOver(c) :
          curCols' = c /\ curRows' = r /\ cols' = c
    /\ cur' = [st |-> "open", opens |-> cur.opens + 1, closes |-> 0]
    /\ defers' = Append(defers, "rows")
    /\ resp' = Append(resp, Payload(StatusOK, {"Test"}, "", "", <<>>, <<>>))
    /\ pc' = "next"
    /\ UNCHANGED <<inputs, clientGone, dsn, serverAddress, defaultPort, ctx, i, err, conn, db,
                   pos, rowsData, delays>>

\* lines 82-89: db.Query returns an error
P1_QueryFail ==
    /\ prog = "part_001" /\ pc = "query"
    /\ hist' = Append(hist, "exec")
    /\ Fail(StatusBadRequest, "Query error", "backend")
    /\ UNCHANGED <<inputs, clientGone, dsn, serverAddress, defaultPort, i, err, db, curCols,
                   curRows, pos, cols, rowsData, delays>>

\* lines 107-122: rows.Next(), rows.Scan, append the value list
P1_ScanRow ==
    /\ prog = "part_001" /\ pc = "next" /\ pos < Len(curRows)
    /\ hist' = Append(hist, "scan")
    /\ rowsData' = Append(rowsData, curRows[pos + 1])
    /\ pos' = pos + 1
    /\ UNCHANGED <<inputs, clientGone, dsn, pc, serverAddress, defaultPort, ctx, i, err, conn,
                   db, cur, curCols, curRows, cols, defers, resp, delays>>

\* lines 114-119: rows.Scan fails; its error names the column
P1_ScanFail ==
    /\ prog = "part_001" /\ pc = "next" /\ pos < Len(curRows)
    /\ pos' = pos + 1
    /\ \E k \in DOMAIN cols :
          /\ hist' = hist \o <<"scan", "scanerr", cols[k]>>
          /\ Fail(StatusInternalServerError, "Scan error", cols[k])
    /\ UNCHANGED <<inputs, clientGone, dsn, serverAddress, defaultPort, i, err, db, curCols,
                   curRows, cols, rowsData, delays>>

\* lines 124-130: rows.Err() is not nil
P1_RowsErr ==
    /\ prog = "part_001" /\ pc = "next"
    /\ Fail(StatusInternalServerError, "Row error", "backend")
    /\ UNCHANGED <<inputs, clientGone, dsn, serverAddress, defaultPort, i, err, db, curCols,
                   curRows, pos, cols, rowsData, delays, hist>>

\* lines 132-136: the HTML result
P1_Success ==
    /\ prog = "part_001" /\ pc = "next" /\ pos = Len(curRows)
    /\ resp' = Append(resp, Payload(StatusOK, {"Columns", "Rows"}, "", "",
                                    cols, rowsData))
    /\ Return
    /\ UNCHANGED <<inputs, clientGone, dsn, serverAddress, defaultPort, i, err, db, curCols,
                   curRows, pos, cols, rowsData, delays, hist>>

Part001 ==
    \/ P1_Switch \/ P1_Open \/ P1_QueryOk \/ P1_QueryFail \/ P1_ScanRow
    \/ P1_ScanFail \/ P1_RowsErr \/ P1_Success

Next == Expire \/ ClientDisconnect \/ MainGo \/ Part000 \/ Part001

Spec == Init /\ [][Next]_vars

\* ============================================ NormalizeAddress on its own
\* lines 49-65 of src/main.go and of part_000, applied to every short address
InitAddr ==
    /\ prog \in {"main", "part_000"}
    /\ driver \in Drivers
    /\ server \in SeqsUpTo(AddrChars, MaxAddrLen)
    /\ password = <<"a">>
    /\ netUp = TRUE
    /\ dsnOk = TRUE
    /\ clientGone = FALSE
    /\ dsn = <<>>
    /\ pc = "addr"
    /\ serverAddress = server
    /\ defaultPort = <<>>
    /\ ctx = "none"
    /\ i = 0
    /\ err = FALSE
    /\ conn = <<>>
    /\ db = 0
    /\ cur = [st |-> "nil", opens |-> 0, closes |-> 0]
    /\ curCols = <<>>
    /\ curRows = <<>>
    /\ pos = 0
    /\ cols = <<>>
    /\ rowsData = <<>>
    /\ defers = <<>>
    /\ resp = <<>>
    /\ delays = <<>>
    /\ hist = <<>>

NormalizeStep ==
    /\ pc = "addr"
    /\ Len(hist) < 2
    /\ defaultPort' = DefaultPort(driver)
    /\ serverAddress' = NormalizeAddress(serverAddress, DefaultPort(driver))
    /\ hist' = Append(hist, "normalize")
    /\ UNCHANGED <<inputs, clientGone, dsn, pc, ctx, i, err, conn, db, cur, curCols, curRows,
                   pos, cols, rowsData, defers, resp, delays>>

NextAddr == NormalizeStep

SpecAddr == InitAddr /\ [][NextAddr]_vars

\* ================================================ the descriptor on its own
\* the switch that builds the descriptor in each version, applied to every
\* short password over PwChars
PwChars == {"a", "@", ":", "/", "?", "&", " "}

InitDsn ==
    /\ prog \in Programs
    /\ driver \in Drivers
    /\ server \in Servers
    /\ password \in SeqsUpTo(PwChars, MaxPwLen)
    /\ netUp = TRUE
    /\ dsnOk \in BOOLEAN
    /\ clientGone = FALSE
    /\ dsn = <<>>
    /\ pc = "start"
    /\ serverAddress = <<>>
    /\ defaultPort = <<>>
    /\ ctx = "none"
    /\ i = 0
    /\ err = FALSE
    /\ conn = <<>>
    /\ db = 0
    /\ cur = [st |-> "nil", opens |-> 0, closes |-> 0]
    /\ curCols = <<>>
    /\ curRows = <<>>
    /\ pos = 0
    /\ cols = <<>>
    /\ rowsData = <<>>
    /\ defers = <<>>
    /\ resp = <<>>
    /\ delays = <<>>
    /\ hist = <<>>

NextDsn == M_Resolve \/ P0_Resolve \/ P0_Switch \/ P1_Switch

SpecDsn == InitDsn /\ [][NextDsn]_vars

\* ============================================ concurrent /query requests
\* gin runs the handler once per request, each run in its own goroutine. The
\* handler of src/main.go from the retry loop to the return, for NumReq
\* requests with a supported driver and a reachable server: the locals i, err,
\* db, ctx and the response are one per run, the connections are one heap.
Reqs == 1..NumReq

\* variant of DbSlot in which db is one variable shared by all runs
DbSlotShared(r) == 1

\* `var db *sql.DB` is declared inside the handler: one per run
DbSlot(r) == r

PerReq(v) == [r \in Reqs |-> v]

InitConc ==
    /\ prog = "main"
    /\ driver = "postgres"
    /\ server = <<"h", ":", "1">>
    /\ password = <<"a">>
    /\ netUp = TRUE
    /\ dsnOk = TRUE
    /\ clientGone = FALSE
    /\ dsn = <<>>
    /\ serverAddress = <<"h", ":", "1">>
    /\ defaultPort = DefaultPort("postgres")
    /\ pc = PerReq("attempt")
    /\ ctx = PerReq("live")
    /\ i = PerReq(0)
    /\ err = PerReq(FALSE)
    /\ db = PerReq(0)
    /\ resp = PerReq(<<>>)
    /\ delays = PerReq(<<>>)
    /\ hist = PerReq(<<>>)
    /\ conn = <<>>
    /\ cur = [st |-> "nil", opens |-> 0, closes |-> 0]
    /\ curCols = <<>>
    /\ curRows = <<>>
    /\ pos = 0
    /\ cols = <<>>
    /\ rowsData = <<>>
    /\ defers = <<>>

concIdle == <<inputs, clientGone, dsn, serverAddress, defaultPort, cur, curCols,
              curRows, pos, cols, rowsData, defers>>

\* a call of request r on handle h
UsedBy(h, r) == [h EXCEPT !.users = @ \cup {r}]
ClosedBy(h, r) ==
    [h EXCEPT !.users = @ \cup {r}, !.open = FALSE, !.closes = @ + 1]

\* lines 138-145: loop head, sql.Open
C_Attempt(r) ==
    /\ pc[r] = "attempt" /\ i[r] < maxRetries
    /\ hist' = [hist EXCEPT ![r] = Append(@, "attempt")]
    /\ conn' = Append(conn, [owner |-> r, open |-> TRUE, closes |-> 0,
                             users |-> {}])
    /\ db' = [db EXCEPT ![DbSlot(r)] = Len(conn) + 1]
    /\ err' = [err EXCEPT ![r] = FALSE]
    /\ pc' = [pc EXCEPT ![r] = "ping"]
    /\ UNCHANGED <<concIdle, ctx, i, resp, delays>>

\* lines 153-157: db.PingContext(ctx) succeeds
C_PingOk(r) ==
    /\ pc[r] = "ping"
    /\ db[DbSlot(r)] # 0 /\ conn[db[DbSlot(r)]].open
    /\ hist' = [hist EXCEPT ![r] = Append(@, "ping")]
    /\ conn' = [conn EXCEPT ![db[DbSlot(r)]] = UsedBy(@, r)]
    /\ pc' = [pc EXCEPT ![r] = "query"]
    /\ UNCHANGED <<concIdle, ctx, i, err, db, resp, delays>>

\* lines 159-173: the ping fails (a closed handle always fails), db.Close(),
\* then the sleep, or after the last attempt the 503 and the return
C_PingFail(r) ==
    /\ pc[r] = "ping"
    /\ db[DbSlot(r)] # 0
    /\ hist' = [hist EXCEPT ![r] =
                  @ \o (IF conn[db[DbSlot(r)]].open THEN <<"ping", "pingerr">>
                        ELSE <<"ping", "closed", "pingerr">>)]
    /\ conn' = [conn EXCEPT ![db[DbSlot(r)]] = ClosedBy(@, r)]
    /\ err' = [err EXCEPT ![r] = TRUE]
    /\ IF i[r] < maxRetries - 1
       THEN /\ pc' = [pc EXCEPT ![r] = "sleep"]
            /\ UNCHANGED <<i, ctx, resp>>
       ELSE /\ i' = [i EXCEPT ![r] = @ + 1]
            /\ resp' = [resp EXCEPT ![r] =
                          Append(@, ErrorPayload(StatusServiceUnavailable,
                             "Failed to connect to database after 3 attempts",
                             "backend"))]
            /\ ctx' = [ctx EXCEPT ![r] = "done"]
            /\ pc' = [pc EXCEPT ![r] = "done"]
    /\ UNCHANGED <<concIdle, db, delays>>

\* lines 162-164: time.Sleep(time.Second * time.Duration(i+1))
C_Sleep(r) ==
    /\ pc[r] = "sleep"
    /\ delays' = [delays EXCEPT ![r] = Append(@, i[r] + 1)]
    /\ i' = [i EXCEPT ![r] = @ + 1]
    /\ pc' = [pc EXCEPT ![r] = "attempt"]
    /\ UNCHANGED <<concIdle, ctx, err, conn, db, resp, hist>>

\* lines 174-241: defer db.Close(), db.QueryContext, the result or the
\* 400, and the deferred calls at the return
C_Query(r) ==
    /\ pc[r] = "query"
    /\ db[DbSlot(r)] # 0
    /\ \E ok \in BOOLEAN :
          LET good == ok /\ conn[db[DbSlot(r)]].open
          IN /\ hist' = [hist EXCEPT ![r] =
                           @ \o (IF good THEN <<"exec">>
                                 ELSE IF conn[db[DbSlot(r)]].open
                                      THEN <<"exec", "execerr">>
                                      ELSE <<"exec", "closed", "execerr">>)]
             /\ resp' = [resp EXCEPT ![r] =
                           Append(@, IF good
                                     THEN Payload(StatusOK,
                                             {"columns", "rows", "status"},
                                             "success", "", <<>>, <<>>)
                                     ELSE ErrorPayload(StatusBadRequest,
                                             "Query error", "backend"))]
    /\ conn' = [conn EXCEPT ![db[DbSlot(r)]] = ClosedBy(@, r)]
    /\ ctx' = [ctx EXCEPT ![r] = "done"]
    /\ pc' = [pc EXCEPT ![r] = "done"]
    /\ UNCHANGED <<concIdle, i, err, db, delays>>

NextConc ==
    \E r \in Reqs :
        C_Attempt(r) \/ C_PingOk(r) \/ C_PingFail(r) \/ C_Sleep(r) \/ C_Query(r)

SpecConc == InitConc /\ [][NextConc]_vars

\* ============================================================ properties
Done == pc = "done"
LastResp == resp[Len(resp)]
Before(a, b) == \E j, k \in DOMAIN hist : j < k /\ hist[j] = a /\ hist[k] = b

\* the error taxonomy of the specification, read off the message texts
Kind(p) ==
    CASE p.msg = "Unsupported database driver" -> "UnsupportedDriverError"
      [] p.msg = "Invalid connection configuration" -> "InvalidConfigurationError"
      [] p.msg = "Database server is not accessible" -> "ServerUnreachableError"
      [] p.msg \in {"Failed to connect to database after 3 attempts",
                    "Failed to connect to database", "Database connection error",
                    "Connection error", "failed to connect to ClickHouse"}
           -> "ConnectionError"
      [] p.msg = "Query error" -> "QueryError"
      [] p.msg \in {"Failed to scan row", "Scan error", "Failed to get row values"}
           -> "RowScanError"
      [] p.msg = "success" -> "Success"
      [] OTHER -> "Other"

NonDecreasing(s) == \A j, k \in DOMAIN s : j <= k => s[j] <= s[k]

\* C1: a finished request all of whose pings failed made exactly 3 attempts,
\* with non-decreasing delays between them, and ended with ConnectionError
\* (503), whatever the driver.
C1_ThreeAttemptsThenConnectionError ==
    (Done /\ Count(hist, "ping") >= 1
          /\ Count(hist, "pingerr") = Count(hist, "ping"))
    => /\ Count(hist, "attempt") = maxRetries
       /\ NonDecreasing(delays)
       /\ LastResp.status = StatusServiceUnavailable
       /\ Kind(LastResp) = "ConnectionError"

\* C2: once the deadline has passed during the retry loop (after the first
\* attempt began), no further attempt is started, and the request ends with
\* TimeoutError rather than ConnectionError.
C2_DeadlineStopsRetrying ==
    /\ \A j, k, m \in DOMAIN hist :
          (j < k /\ k < m /\ hist[j] = "attempt" /\ hist[k] = "expire"
             /\ \A n \in 1..k : hist[n] # "exec")
          => hist[m] # "attempt"
    /\ (Done /\ Count(hist, "exec") = 0 /\ Before("attempt", "expire"))
          => Kind(LastResp) = "TimeoutError"

ExpiredBeforeExecute ==
    \E k \in DOMAIN hist :
        k > 1 /\ hist[k] = "exec" /\ hist[k - 1] = "expire"

\* C3: a request whose deadline passed after the connection succeeded and
\* before execute returned ends with TimeoutError (503), not QueryError (400).
C3_DeadlineAtExecuteIsTimeout ==
    (Done /\ ExpiredBeforeExecute /\ hist[Len(hist)] = "exec"
          /\ Count(hist, "ping") > Count(hist, "pingerr"))
    => /\ LastResp.status = StatusServiceUnavailable
       /\ Kind(LastResp) # "QueryError"

\* C4: no connection, pool or cursor is released more often than it was
\* opened, and when the request has ended every one opened has been released
\* exactly once.
C4_ReleasedExactlyOnce ==
    /\ \A h \in DOMAIN conn :
          /\ conn[h].closes <= 1
          /\ conn[h].open <=> conn[h].closes = 0
          /\ Done => conn[h].closes = 1
    /\ cur.closes <= cur.opens
    /\ cur.opens <= 1
    /\ (cur.st = "nil") <=> (cur.opens = 0)
    /\ Done => cur.closes = cur.opens /\ cur.st # "open"

C4_Witness ==
    /\ Done
    /\ prog = "main"
    /\ Len(conn) = maxRetries + 1
    /\ cur.opens = 1
    /\ Count(hist, "expire") = 1
    /\ LastResp.status = StatusInternalServerError

ResultKeys == {"columns", "rows", "Columns", "Rows", "status", "Test", "Content"}

\* C5: a request writes exactly one payload: never more than one, one when it
\* has ended, and a result only when the cursor was drained.
C5_ExactlyOneResponse ==
    /\ Len(resp) <= 1
    /\ Done => Len(resp) = 1
    /\ \A k \in DOMAIN resp :
          resp[k].keys \cap ResultKeys # {}
          => Done /\ k = Len(resp) /\ pos = Len(curRows)
                  /\ Count(hist, "scanerr") = 0

RowText(k) == CASE k = 1 -> "1" [] k = 2 -> "2" [] k = 3 -> "3" [] OTHER -> "4"
ScanFailed == Len(hist) >= 2 /\ hist[Len(hist) - 1] = "scanerr"
FailingColumn == hist[Len(hist)]
MessageParts(p) == {p.msg, p.cause}

\* C6: a request whose scan failed at row k ends with RowScanError (500), its
\* message names row k and the failing column, and no row is exposed.
C6_ScanErrorNamesRowAndColumn ==
    (Done /\ ScanFailed)
    => /\ LastResp.status = StatusInternalServerError
       /\ Kind(LastResp) = "RowScanError"
       /\ RowText(pos) \in MessageParts(LastResp)
       /\ FailingColumn \in MessageParts(LastResp)
       /\ \A k \in DOMAIN resp : resp[k].rows = <<>>

IsResult(p) == p.keys \cap {"rows", "Rows"} # {}

RowFromCursor(row, raw) ==
    IF prog = "part_001"
    THEN row = raw
    ELSE /\ DOMAIN row = Range(curCols)
         /\ \A name \in Range(curCols) :
               \E j \in DOMAIN curCols :
                  curCols[j] = name /\ row[name].v = raw[j].v

\* C7: the result of a cursor drained without error has the cursor's column
\* list, as many rows as the cursor, in its order, and every row is built over
\* that column list.
C7_ResultMatchesCursor ==
    (Done /\ IsResult(LastResp))
    => /\ LastResp.cols = curCols
       /\ Len(LastResp.rows) = Len(curRows)
       /\ \A k \in DOMAIN curRows :
             RowFromCursor(LastResp.rows[k], curRows[k])

C7_Witness ==
    /\ Done /\ prog = "main" /\ IsResult(LastResp)
    /\ curCols = <<"id", "name">>
    /\ Len(curRows) = 2
    /\ curRows[1] # curRows[2]
    /\ Len(LastResp.rows) = 2

\* C8: a supported driver is never rejected as unsupported, and once the
\* port table was consulted postgres, mysql and clickhouse have the ports
\* 5432, 3306 and 9000 and sqlite has none.
C8_SupportedDriversResolve ==
    driver \in SupportedDrivers
    => /\ \A k \in DOMAIN resp : Kind(resp[k]) # "UnsupportedDriverError"
       /\ (prog \in {"main", "part_000"} /\ pc \notin {"start", "addr"})
          => defaultPort =
                CASE driver = "postgres" -> <<"5", "4", "3", "2">>
                  [] driver = "mysql" -> <<"3", "3", "0", "6">>
                  [] driver = "clickhouse" -> <<"9", "0", "0", "0">>
                  [] OTHER -> <<>>

\* C9: a request for a driver outside the supported set ends with
\* UnsupportedDriverError (400) and makes no probe, no connection attempt and
\* no execution.
C9_UnsupportedDriverRejected ==
    driver \notin SupportedDrivers
    => /\ \A k \in DOMAIN hist : hist[k] \notin {"probe", "attempt", "open", "ping", "exec"}
       /\ Done => /\ Len(resp) = 1
                  /\ LastResp.status = StatusBadRequest
                  /\ Kind(LastResp) = "UnsupportedDriverError"

Digits == {"0", "1", "2", "3", "4", "5", "6", "7", "8", "9"}

HasPort(a) ==
    \E k \in DOMAIN a :
        /\ a[k] = ":"
        /\ k < Len(a)
        /\ \A j \in (k + 1)..Len(a) : a[j] \in Digits

\* C10: NormalizeAddress applied to an address it has already normalised
\* returns it unchanged; an address with a port is left as it is; an address
\* is changed only by appending ":" and the driver's default port, and only
\* when the driver has one and the address has no port.
C10_NormalizeIdempotent ==
    Count(hist, "normalize") >= 1
    => /\ NormalizeAddress(serverAddress, DefaultPort(driver)) = serverAddress
       /\ HasPort(server) => serverAddress = server
       /\ serverAddress # server
          => /\ DefaultPort(driver) # <<>>
             /\ ~HasPort(server)
             /\ serverAddress = server \o <<":">> \o DefaultPort(driver)

C10_Witness ==
    /\ Count(hist, "normalize") = 2
    /\ server = <<"h", "h">>
    /\ serverAddress = <<"h", "h", ":", "3", "3", "0", "6">>

\* C11: a connection attempt is made only after a probe that succeeded, and a
\* request whose probe failed ends at once with ServerUnreachableError (503)
\* and makes no attempt, ping, execute or scan.
C11_ProbeGatesConnection ==
    /\ Count(hist, "attempt") >= 1
          => Before("probe", "attempt") /\ Dial(server)
    /\ (Count(hist, "probe") >= 1 /\ ~Dial(server) /\ pc # "probe")
          => /\ Done
             /\ Len(resp) = 1
             /\ LastResp.status = StatusServiceUnavailable
             /\ Kind(LastResp) = "ServerUnreachableError"
             /\ \A k \in DOMAIN hist :
                   hist[k] \notin {"attempt", "open", "ping", "exec", "scan"}

\* C12: for a server given without a port and a driver with a default port,
\* a request that reaches the probe has the effective address host:port, it
\* passes the probe when the backend is reachable there, and it ends with
\* ServerUnreachableError (503) when it is not.
C12_ProbeUsesEffectiveAddress ==
    (Count(hist, "probe") >= 1 /\ ~Contains(server, ":")
          /\ DefaultPort(driver) # <<>>)
    => /\ serverAddress = server \o <<":">> \o DefaultPort(driver)
       /\ netUp => \A k \in DOMAIN resp :
                      Kind(resp[k]) # "ServerUnreachableError"
       /\ (~netUp /\ Done)
             => /\ LastResp.status = StatusServiceUnavailable
                /\ Kind(LastResp) = "ServerUnreachableError"

\* C13: a ClickHouse request whose execute returned the EOF sentinel ends as a
\* successful result; one whose execute returned any other error ends with
\* QueryError (400).
C13_EofIsNormalCompletion ==
    (Done /\ driver = "clickhouse" /\ Count(hist, "exec") = 1)
    => /\ Count(hist, "eof") = 1
             => /\ LastResp.status = StatusOK
                /\ IsResult(LastResp)
       /\ (Count(hist, "eof") = 0 /\ hist[Len(hist)] = "exec")
             => /\ LastResp.status = StatusBadRequest
                /\ Kind(LastResp) = "QueryError"

TaxonomyStatus(kind) ==
    CASE kind \in {"ConnectionError", "ServerUnreachableError", "TimeoutError"}
           -> StatusServiceUnavailable
      [] kind \in {"QueryError", "UnsupportedDriverError",
                   "InvalidConfigurationError"} -> StatusBadRequest
      [] OTHER -> StatusInternalServerError

\* C14: every error payload carries the status its kind has in the taxonomy:
\* ConnectionError 503, QueryError 400, RowScanError 500,
\* ServerUnreachableError 503, UnsupportedDriverError 400.
C14_StatusFollowsTaxonomy ==
    \A k \in DOMAIN resp :
        Kind(resp[k]) \in {"ConnectionError", "ServerUnreachableError",
                           "QueryError", "UnsupportedDriverError", "RowScanError"}
        => resp[k].status = TaxonomyStatus(Kind(resp[k]))

\* the stage of section 3's lifecycle a handler position belongs to:
\* 0 Received, 1 Resolved, 2 Connecting, 3 Connected (about to execute),
\* 4 Materializing, 5 terminal (Completed or Failed)
Stage(p) ==
    CASE p = "start" -> 0
      [] p \in {"probe", "switch", "open"} -> 1
      [] p \in {"attempt", "ping", "sleep", "afterloop", "pg_attempt",
                "pg_ping", "pg_sleep", "pg_afterloop", "my_open", "my_ping",
                "ch_open"} -> 2
      [] p \in {"query", "pg_query", "my_query", "ch_query"} -> 3
      [] p \in {"columns", "next", "pg_next", "my_columns", "my_next",
                "ch_next"} -> 4
      [] p = "done" -> 5

\* C15: every step of a request keeps or advances its stage (only the 1 to 3
\* attempts stay inside Connecting), a step that reports an error ends in the
\* terminal stage, and a request in the terminal stage takes no further step.
C15_StagesOnlyForward ==
    [][ /\ pc # "done"
        /\ Stage(pc') >= Stage(pc)
        /\ (Len(resp') > Len(resp) /\ resp'[Len(resp')].status # StatusOK)
              => pc' = "done"
        /\ (Stage(pc) = 3 /\ pc' # pc) => Count(hist', "exec") = 1 ]_vars

C15_Witness ==
    /\ Done /\ prog = "main"
    /\ Kind(LastResp) = "Success"
    /\ Count(hist, "attempt") = maxRetries
    /\ Count(hist, "scan") = MaxRows

\* the payloads that report an error
ErrorResponses == {k \in DOMAIN resp : resp[k].status # StatusOK}

\* C16: the statement is executed at most once and each row of the cursor is
\* scanned at most once; nothing is connected, executed or scanned after an
\* execute or scan failure, and a failure is reported by one payload, the last.
C16_NoReexecution ==
    /\ Count(hist, "exec") <= 1
    /\ Count(hist, "scan") <= Len(curRows)
    /\ Count(hist, "scanerr") <= 1
    /\ cur.opens <= 1
    /\ \A j, k \in DOMAIN hist :
          (j < k /\ hist[j] = "exec")
             => hist[k] \notin {"attempt", "open", "ping", "exec"}
    /\ \A j, k \in DOMAIN hist :
          (j < k /\ hist[j] = "scanerr")
             => hist[k] \notin {"attempt", "open", "ping", "exec", "scan",
                                "scanerr"}
    /\ Cardinality(ErrorResponses) <= 1
    /\ ErrorResponses \subseteq {Len(resp)}
    /\ (Count(hist, "scanerr") = 1
           \/ \E k \in DOMAIN resp : Kind(resp[k]) = "QueryError")
          => /\ Done
             /\ Count(hist, "exec") = 1
             /\ Cardinality(ErrorResponses) = 1

C16_Witness ==
    /\ Done /\ prog = "main"
    /\ Count(hist, "exec") = 1
    /\ Count(hist, "scan") = MaxRows
    /\ Count(hist, "scanerr") = 1
    /\ Kind(LastResp) = "RowScanError"

\* C19: between two consecutive attempts the Connector has waited once, the
\* k-th wait lasting k seconds; there is no wait after the last attempt, what a
\* failed attempt opened is closed before the next one, attempts never
\* overlap, and no attempt follows a successful ping.
C19_LinearBackoffBetweenAttempts ==
    /\ \A k \in DOMAIN delays : delays[k] = k
    /\ Len(delays) <= maxRetries - 1
    /\ Count(hist, "attempt") >= 1
          => Len(delays) >= Count(hist, "attempt") - 1
    /\ Done => Len(delays) <= Count(hist, "attempt") - 1
                 \/ Count(hist, "attempt") = 0
    /\ Cardinality({h \in DOMAIN conn : conn[h].open /\ conn[h].closes = 0}) <= 1
    /\ \A j, k \in DOMAIN hist :
          (j < k /\ hist[j] = "ping" /\ hist[j + 1] # "pingerr")
             => hist[k] # "attempt"

\* C17: once the client has disconnected, a request that is connecting,
\* executing or draining no longer has a live deadline context: the context
\* is cancelled, so the step in progress is unblocked.
C17_DisconnectCancelsContext ==
    (clientGone /\ Stage(pc) \in 2..4) => ctx \notin {"live", "none"}

\* what the driver reads back for a request whose descriptor has been built
Parsed == ParseDSN(driver, dsn)

\* the option names each version puts into the descriptor
RequestedOptions ==
    CASE driver = "postgres" ->
           QueryKeys(IF prog = "main" THEN MainPgOptions ELSE PgOptions)
      [] driver = "mysql" ->
           IF prog = "main" THEN QueryKeys(MainMyOptions)
           ELSE IF prog = "part_000" THEN {<<"parseTime">>} ELSE {}
      [] driver = "clickhouse" ->
           IF prog = "main" THEN QueryKeys(MainChOptions) ELSE {}

\* C20: for every supported driver and every password, the descriptor parses,
\* and the password, host, database and options read back from it are the ones
\* the request gave.
C20_DescriptorRoundTrip ==
    (dsn # <<>> /\ driver \in {"postgres", "mysql", "clickhouse"})
    => /\ Parsed.ok
       /\ Parsed.password = password
       /\ Parsed.host = (IF prog = "part_001" THEN server ELSE serverAddress)
       /\ Parsed.database = <<"d">>
       /\ Parsed.options = RequestedOptions

\* the status a request gets when it runs alone and its calls answer as logged
AloneStatus(log) ==
    IF Count(log, "pingerr") = maxRetries THEN StatusServiceUnavailable
    ELSE IF Count(log, "execerr") = 1 THEN StatusBadRequest
    ELSE StatusOK

\* C18: with concurrent requests every connection is used and released only
\* by the request that opened it, a request's db is a connection it opened, no
\* request finds its connection closed by another, and a finished request has
\* the one response it would have alone.
C18_RequestsIsolated ==
    /\ \A h \in DOMAIN conn :
          /\ conn[h].users \subseteq {conn[h].owner}
          /\ conn[h].closes <= 1
    /\ \A r \in Reqs :
          /\ db[r] # 0 => conn[db[r]].owner = r
          /\ Count(hist[r], "closed") = 0
          /\ Count(hist[r], "attempt")
                = Cardinality({h \in DOMAIN conn : conn[h].owner = r})
          /\ pc[r] = "done"
                => /\ Len(resp[r]) = 1
                   /\ resp[r][1].status = AloneStatus(hist[r])
                   /\ \A h \in DOMAIN conn :
                         conn[h].owner = r => conn[h].closes = 1

C18_Witness ==
    /\ \A r \in Reqs : pc[r] = "done"
    /\ Len(conn) >= 3
    /\ conn[1].owner # conn[2].owner
    /\ conn[3].owner = conn[1].owner
    /\ \E r \in Reqs : resp[r][1].status = StatusOK

\* C21: every materialized row mapping has as many entries as the cursor has
\* columns, and under the name of every column position it holds the value
\* scanned at that position, also when two columns have the same name.
C21_NoColumnValueLost ==
    prog # "part_001"
    => \A k \in DOMAIN rowsData :
          /\ Cardinality(DOMAIN rowsData[k]) = Len(curCols)
          /\ \A j \in DOMAIN curCols :
                rowsData[k][curCols[j]].v = curRows[k][j].v
====
